---------------------------- MODULE Spec2Model ----------------------------
(***************************************************************************)
(* A model of hashsync: update_sha1s (the primary tool that maintains the  *)
(* ".sha1s" manifest of a directory tree), compare_sha1s (the diff tool)   *)
(* and the streaming SHA-1 wrapper of sha1.c.                              *)
(*                                                                         *)
(* Files are sequences of bytes (naturals 0..255).  A C string is a        *)
(* sequence of non-zero bytes; reading one position past its end yields    *)
(* the terminating NUL.                                                    *)
(***************************************************************************)
EXTENDS Integers, Sequences, FiniteSets, TLC

VARIABLES
    \* ---- the manifest codec on its own (load_sha1s o persist loop) ----
    cpc,        \* "mem", "file", "cut", "decoded", "decodedcut"
    cm,         \* the in-memory manifest handed to the persist loop
    cflag,      \* remove_missing, as the persist loop reads it
    crecs,      \* the records as written, in the order of iteration
    cbytes,     \* the bytes of the manifest file
    cres,       \* what load_sha1s made of cbytes
    \* ---- one digest computation of sha1.c ----
    hpc,        \* "new" (not started), "started", "finished"
    hs,         \* the sha1_state: index, hash, total, block
    hfed,       \* the number of message bytes passed to sha1_process so far
    hempty,     \* a call with len = 0 was made
    hcross,     \* a call's bytes went across a 64-byte boundary of the message
    \* ---- one run of compare_sha1s ----
    dpc,        \* "start", "loaded", "done", "failed"
    dlocal,     \* the records of the reference manifest file, in file order
    dremote,    \* the records of the candidate manifest file, in file order
    dterm,      \* the last byte of each record in both files: NUL or newline
    dmap,       \* local_sha1s: hash -> path
    dout,       \* the lines printed
    ddamage,    \* how one of the two files was damaged after it was written
    \* ---- runs of update_sha1s on one directory ----
    pc,             \* "start", "scan", "write", "rename", "done", "failed"
    run,            \* the number of the run
    clock,          \* the time of the last clock_gettime, or later
    tree,           \* d_name -> the directory entry of that name
    canon,          \* the manifest file ".sha1s": [exists, bytes]
    tmpf,           \* the temporary file ".sha1s.tmp": [exists, bytes]
    remove_missing, \* -c
    ignore_seconds, \* -i <days>, in seconds
    filename,       \* -f <file>: the name of the manifest file
    now,            \* the reference time of the run
    sha1s,          \* the in-memory manifest: path -> CFileHash
    todo,           \* the d_names readdir has not returned yet
    updated,        \* what update_sha1s has accumulated
    need_to_write,
    towrite,        \* the paths the persist loop has not reached yet
    faulty,         \* a library call of the persist phase has failed
    \* history of the run, for the properties
    pre,            \* canon as the run found it
    loaded,         \* the manifest as load_sha1s returned it
    visited,        \* path -> the time at which update_sha1 looked at its file
    hashed,         \* the paths calculate_sha1 was called for
    vanished,       \* the paths whose open() failed with ENOENT
    out,            \* the progress lines printed: <<tag, path>>
    renamed,        \* rename() has returned 0 in this run
    prev            \* of the run before: [now, out, sha1s], or NoRun

codecVars == <<cpc, cm, cflag, crecs, cbytes, cres>>
hashVars == <<hpc, hs, hfed, hempty, hcross>>
diffVars == <<dpc, dlocal, dremote, dterm, dmap, dout, ddamage>>
fsVars == <<tree, canon, tmpf>>
optVars == <<remove_missing, ignore_seconds, filename>>
histVars == <<pre, loaded, visited, hashed, vanished, out, renamed, prev>>
toolVars == <<pc, run, clock, fsVars, optVars, now, sha1s, todo, updated,
              need_to_write, towrite, faulty, histVars>>

vars == <<codecVars, hashVars, diffVars, toolVars>>

-----------------------------------------------------------------------------
(* Bytes and C strings *)

NUL == 0
NL  == 10
DOT == 46
MINUS == 45
PLUS == 43

Digit(d) == 48 + d
IsDigit(b) == b >= 48 /\ b <= 57
IsSpace(b) == b \in {9, 10, 11, 12, 13, 32}

\* s[i] of a C string, 1-based; its terminator at and (never read) beyond Len+1.
At(s, i) == IF i >= 1 /\ i <= Len(s) THEN s[i] ELSE NUL

RECURSIVE Flatten(_)
Flatten(ss) == IF ss = <<>> THEN <<>> ELSE Head(ss) \o Flatten(Tail(ss))

MapSet(m, k, v) == [x \in (DOMAIN m) \cup {k} |-> IF x = k THEN v ELSE m[x]]
EmptyMap == <<>>

\* printf("%ld")
RECURSIVE fmt_ld(_)
fmt_ld(n) ==
    IF n < 0 THEN <<MINUS>> \o fmt_ld(-n)
    ELSE IF n < 10 THEN <<Digit(n)>>
    ELSE fmt_ld(n \div 10) \o <<Digit(n % 10)>>

\* The model's long: TLC's integers are 32 bits wide, so strtol saturates at
\* 2^31 - 1 here where the program's saturates at LONG_MAX = 2^63 - 1.
LongMax == 2147483647

RECURSIVE strtol_skip(_, _)
strtol_skip(s, i) == IF IsSpace(At(s, i)) THEN strtol_skip(s, i + 1) ELSE i

RECURSIVE strtol_digits(_, _, _)
strtol_digits(s, i, acc) ==
    IF IsDigit(At(s, i))
    THEN LET d == At(s, i) - 48
         IN  strtol_digits(s, i + 1,
                 IF acc > (LongMax - d) \div 10 THEN LongMax ELSE acc * 10 + d)
    ELSE [val |-> acc, end |-> i]

\* strtol(s + i, &end, 10): [val, end]; end = i when no digits were found.
strtol(s, i) ==
    LET j == strtol_skip(s, i)
        k == IF At(s, j) \in {PLUS, MINUS} THEN j + 1 ELSE j
        d == strtol_digits(s, k, 0)
    IN  IF d.end = k THEN [val |-> 0, end |-> i]
        ELSE [val |-> IF At(s, j) = MINUS THEN 0 - d.val ELSE d.val, end |-> d.end]

-----------------------------------------------------------------------------
(* load_sha1s of update_sha1s.C.  buf holds the file's size bytes followed *)
(* by buf[size] = 0; positions are 0-based as in the program.  A read of   *)
(* buf[size + 1] is outside the allocation: it yields junk, any byte.      *)

BufByte(buf, i, junk) ==
    IF i < Len(buf) THEN buf[i + 1] ELSE IF i = Len(buf) THEN NUL ELSE junk

RECURSIVE CStrLen(_, _)
CStrLen(buf, i) ==
    IF i >= Len(buf) \/ buf[i + 1] = NUL THEN 0 ELSE 1 + CStrLen(buf, i + 1)

get_string(it, buf) ==
    IF it >= Len(buf)
    THEN [exit |-> TRUE, str |-> <<>>, it |-> it]
    ELSE LET n == CStrLen(buf, it)
         IN  [exit |-> FALSE, str |-> SubSeq(buf, it + 1, it + n), it |-> it + n + 1]

LoadFail(e) == [err |-> e, map |-> EmptyMap]

CFileHash(hash, st_mtim, touched) ==
    [hash |-> hash, st_mtim |-> st_mtim, touched |-> touched]

\* strtol, '.', strtol, NUL of lines 135-142: [err, sec, nsec]
parse_time(time) ==
    LET s == strtol(time, 1)
    IN  IF At(time, s.end) # DOT THEN [err |-> "expected_dot", sec |-> 0, nsec |-> 0]
        ELSE LET n == strtol(time, s.end + 1)
             IN  IF At(time, n.end) # NUL
                 THEN [err |-> "expected_null", sec |-> 0, nsec |-> 0]
                 ELSE [err |-> "none", sec |-> s.val, nsec |-> n.val]

RECURSIVE load_loop(_, _, _, _)
load_loop(buf, it, tmp, junk) ==
    IF ~(Len(buf) - it > 1) THEN [err |-> "none", map |-> tmp]
    ELSE
    LET fname == get_string(it, buf) IN
    IF fname.exit THEN LoadFail("truncated") ELSE
    LET time == get_string(fname.it, buf) IN
    IF time.exit THEN LoadFail("truncated") ELSE
    LET hash == get_string(time.it, buf) IN
    IF hash.exit THEN LoadFail("truncated") ELSE
    LET t == parse_time(time.str) IN
    IF t.err # "none" THEN LoadFail(t.err) ELSE
    IF BufByte(buf, hash.it, junk) \notin {NUL, NL} THEN LoadFail("expected_term") ELSE
    load_loop(buf, hash.it + 1,
              MapSet(tmp, fname.str,
                     CFileHash(hash.str, [tv_sec |-> t.sec, tv_nsec |-> t.nsec], FALSE)),
              junk)

load_sha1s(buf, junk) == load_loop(buf, 0, EmptyMap, junk)

-----------------------------------------------------------------------------
(* The persist loop of main: the six fwrite items of one record, and the   *)
(* bytes of a whole manifest written in the order the map iterates.        *)

FormatModified_SecondsTwice(st_mtim) ==
    fmt_ld(st_mtim.tv_sec) \o <<DOT>> \o fmt_ld(st_mtim.tv_sec)
FormatModified(st_mtim) == fmt_ld(st_mtim.tv_sec) \o <<DOT>> \o fmt_ld(st_mtim.tv_nsec)

RecordItems(path, r) ==
    << path, <<NUL>>, FormatModified(r.st_mtim), <<NUL>>, r.hash, <<NUL, NL>> >>

PersistSkips(rm, r) == rm /\ ~r.touched

RECURSIVE PersistRecords(_, _, _)
PersistRecords(order, m, rm) ==
    IF order = <<>> THEN <<>>
    ELSE LET p == Head(order)
             rest == PersistRecords(Tail(order), m, rm)
         IN  IF PersistSkips(rm, m[p]) THEN rest
             ELSE <<Flatten(RecordItems(p, m[p]))>> \o rest

-----------------------------------------------------------------------------
(* compare_sha1s.C: load_sha1s indexes the reference manifest by hash,   *)
(* compare_sha1s prints the path of every candidate record whose hash is   *)
(* not in the index.  Neither parses the timestamp.                        *)

\* line 91: tmp[hash] = fname
IndexInsert_ByName(tmp, fname, hash) == MapSet(tmp, fname, hash)
IndexInsert(tmp, fname, hash) == MapSet(tmp, hash, fname)

\* line 138: m.find(hash) == m.end()
NotIndexed(m, hash) == hash \notin DOMAIN m

RECURSIVE cmp_load_loop(_, _, _, _)
cmp_load_loop(buf, it, tmp, junk) ==
    IF ~(Len(buf) - it > 1) THEN [err |-> "none", map |-> tmp]
    ELSE
    LET fname == get_string(it, buf) IN
    IF fname.exit THEN LoadFail("truncated") ELSE
    LET time == get_string(fname.it, buf) IN
    IF time.exit THEN LoadFail("truncated") ELSE
    LET hash == get_string(time.it, buf) IN
    IF hash.exit THEN LoadFail("truncated") ELSE
    IF BufByte(buf, hash.it, junk) \notin {NUL, NL} THEN LoadFail("expected_term") ELSE
    cmp_load_loop(buf, hash.it + 1, IndexInsert(tmp, fname.str, hash.str), junk)

cmp_load_sha1s(buf, junk) == cmp_load_loop(buf, 0, EmptyMap, junk)

\* [err, out]: out is what was printed, also when the loop then exits on an error
RECURSIVE cmp_compare_loop(_, _, _, _, _)
cmp_compare_loop(m, buf, it, printed, junk) ==
    IF ~(Len(buf) - it > 1) THEN [err |-> "none", out |-> printed]
    ELSE
    LET fname == get_string(it, buf) IN
    IF fname.exit THEN [err |-> "truncated", out |-> printed] ELSE
    LET time == get_string(fname.it, buf) IN
    IF time.exit THEN [err |-> "truncated", out |-> printed] ELSE
    LET hash == get_string(time.it, buf) IN
    IF hash.exit THEN [err |-> "truncated", out |-> printed] ELSE
    IF BufByte(buf, hash.it, junk) \notin {NUL, NL}
    THEN [err |-> "expected_term", out |-> printed] ELSE
    cmp_compare_loop(m, buf, hash.it + 1,
                     IF NotIndexed(m, hash.str) THEN Append(printed, fname.str) ELSE printed,
                     junk)

compare_sha1s(m, buf, junk) == cmp_compare_loop(m, buf, 0, <<>>, junk)

-----------------------------------------------------------------------------
(* calculate_sha1: the digest of a file's content as 40 lowercase hex      *)
(* characters.  A content is an abstract identity 1, 2, ...; its five      *)
(* digest words are an injective function of it (sha1.c is modelled on its *)
(* own below).                                                             *)

HexDigit(d) == IF d < 10 THEN 48 + d ELSE 87 + d

RECURSIVE fmt_x(_)
fmt_x(n) == IF n < 16 THEN <<HexDigit(n)>> ELSE fmt_x(n \div 16) \o <<HexDigit(n % 16)>>

\* printf("%08x")
fmt_08x(w) ==
    LET x == fmt_x(w)
    IN  [i \in 1..(8 - Len(x)) |-> Digit(0)] \o x

DigestWords(content) == <<160 + content, 0, 0, 0, content>>

calculate_sha1(content) ==
    LET hash == DigestWords(content)
    IN  fmt_08x(hash[1]) \o fmt_08x(hash[2]) \o fmt_08x(hash[3])
            \o fmt_08x(hash[4]) \o fmt_08x(hash[5])

-----------------------------------------------------------------------------
(* Bounds and input sets *)

MaxContent == 2                      \* contents (and so digests) 1..MaxContent
SLASH == 47
HalfSecond == 500000000              \* a tv_nsec that is not zero
Day == 86400

Contents == 1..MaxContent
DirNames == {<<97>>, <<98>>}         \* the d_names "a" and "b"
PathOf(dir, d_name) == dir \o <<SLASH>> \o d_name
RootDir == <<DOT>>
Paths == {PathOf(RootDir, n) : n \in DirNames}

Timespec(s, n) == [tv_sec |-> s, tv_nsec |-> n]

Orders(S) ==
    {o \in [1..Cardinality(S) -> S] : \A i, j \in DOMAIN o : i # j => o[i] # o[j]}

RECURSIVE SumLen(_)
SumLen(ss) == IF ss = <<>> THEN 0 ELSE Len(Head(ss)) + SumLen(Tail(ss))

\* The offsets of cbytes at which a record of crecs ends (0: before the first).
Boundaries(recs) == {SumLen(SubSeq(recs, 1, k)) : k \in 0..Len(recs)}

-----------------------------------------------------------------------------
(* update_sha1s.C: update_sha1 (one regular file), the entry loop of      *)
(* update_sha1s, and the prune and persist phases of main.                 *)

FreshSeconds == 3

NoEntry == [d_type |-> "NONE", st_mtim |-> Timespec(0, 0), content |-> 0]
RegularFile(st_mtim, content) ==
    [d_type |-> "REG", st_mtim |-> st_mtim, content |-> content]
Absent == [exists |-> FALSE, bytes |-> <<>>]
FileOf(bytes) == [exists |-> TRUE, bytes |-> bytes]

\* line 187 and line 338: (now.tv_sec - st_mtim.tv_sec) > ignore_seconds
Expired(ignore, ref, st_mtim) ==
    ignore # 0 /\ (ref.tv_sec - st_mtim.tv_sec) > ignore

\* line 194: it != sha1s.end() && it->second.modified() == sb.st_mtim
Matches_WrongField(map, path, st_mtim) ==
    /\ path \in DOMAIN map
    /\ map[path].st_mtim.tv_sec = st_mtim.tv_sec
    /\ map[path].st_mtim.tv_sec = st_mtim.tv_nsec
Matches(map, path, st_mtim) ==
    /\ path \in DOMAIN map
    /\ map[path].st_mtim.tv_sec = st_mtim.tv_sec
    /\ map[path].st_mtim.tv_nsec = st_mtim.tv_nsec

\* line 210: (nownow.tv_sec - sb.st_mtim.tv_sec) < 3
TooFresh(nownow, st_mtim) == (nownow.tv_sec - st_mtim.tv_sec) < FreshSeconds

\* update_sha1 on an open regular file: the map, the value returned, the line
\* printed and whether calculate_sha1 ran
update_sha1_FreshFirst(map, path, sb, content, ignore, ref, nownow) ==
    IF Expired(ignore, ref, sb.st_mtim)
    THEN [map |-> map, ret |-> FALSE, line |-> "", hashed |-> FALSE]
    ELSE IF TooFresh(nownow, sb.st_mtim)
    THEN [map |-> map, ret |-> TRUE, line |-> "<3s", hashed |-> FALSE]
    ELSE IF Matches(map, path, sb.st_mtim)
    THEN [map |-> [map EXCEPT ![path].touched = TRUE],
          ret |-> FALSE, line |-> "", hashed |-> FALSE]
    ELSE [map |-> MapSet(map, path, CFileHash(calculate_sha1(content), sb.st_mtim, TRUE)),
          ret |-> TRUE,
          line |-> IF path \in DOMAIN map THEN "mod" ELSE "add",
          hashed |-> TRUE]
update_sha1(map, path, sb, content, ignore, ref, nownow) ==
    IF Expired(ignore, ref, sb.st_mtim)
    THEN [map |-> map, ret |-> FALSE, line |-> "", hashed |-> FALSE]
    ELSE IF Matches(map, path, sb.st_mtim)
    THEN [map |-> [map EXCEPT ![path].touched = TRUE],
          ret |-> FALSE, line |-> "", hashed |-> FALSE]
    ELSE IF TooFresh(nownow, sb.st_mtim)
    THEN [map |-> map, ret |-> TRUE, line |-> "<3s", hashed |-> FALSE]
    ELSE [map |-> MapSet(map, path, CFileHash(calculate_sha1(content), sb.st_mtim, TRUE)),
          ret |-> TRUE,
          line |-> IF path \in DOMAIN map THEN "mod" ELSE "add",
          hashed |-> TRUE]

\* lines 236-270: what update_sha1s does with an entry, by its d_type and, for
\* a symbolic link, by what stat() of the link's target finds: "abort" (stat
\* fails, line 246), "skip", "DIR" (recurse) or "REG" (update_sha1).  A d_type
\* "LNK_REG" is a link to a regular file, "LNK_DIR" to a directory,
\* "LNK_OTHER" to something else, "LNK_DANGLING" to nothing; in a DIR and a
\* LNK_DIR entry st_mtim and content are those of the one regular file, named
\* ChildName, that the directory holds.
ChildName == <<99>>
StatFails(d_type) == d_type = "LNK_DANGLING"
Classify(d_type) ==
    IF d_type \in {"LNK_REG", "LNK_DIR", "LNK_OTHER", "LNK_DANGLING"}
    THEN IF StatFails(d_type) THEN "abort"
         ELSE IF d_type = "LNK_DIR" THEN "DIR"
         ELSE IF d_type = "LNK_REG" THEN "REG"
         ELSE "skip"
    ELSE IF d_type = "DIR" THEN "DIR"
    ELSE IF d_type # "REG" THEN "skip"
    ELSE "REG"

\* line 34: const char *filename = ".sha1s"; line 362: strncat(sha1s_tmp, ".tmp", ...)
DefaultName == <<DOT, 115, 104, 97, 49, 115>>
TmpSuffix == <<DOT, 116, 109, 112>>
TmpName(file) == file \o TmpSuffix

\* line 234: strncmp(name.c_str(), "./.sha1s", 8) == 0
ManifestPrefix == <<DOT, SLASH, DOT, 115, 104, 97, 49, 115>>
IgnoredName(name) ==
    Len(name) >= Len(ManifestPrefix) /\ SubSeq(name, 1, Len(ManifestPrefix)) = ManifestPrefix

\* lines 333-342: what the prune loop does with one record: "rem", "exp" or ""
PruneTag_NoMissing(rm, ignore, ref, r) ==
    IF Expired(ignore, ref, r.st_mtim) THEN "exp" ELSE ""
PruneTag_NoExpiry(rm, ignore, ref, r) ==
    IF rm /\ ~r.touched THEN "rem" ELSE ""
PruneTag(rm, ignore, ref, r) ==
    IF rm /\ ~r.touched THEN "rem"
    ELSE IF Expired(ignore, ref, r.st_mtim) THEN "exp"
    ELSE ""

\* lines 328-355: [map, lines]
Prune(map, rm, ignore, ref) ==
    IF rm \/ ignore # 0
    THEN LET gone == {p \in DOMAIN map : PruneTag(rm, ignore, ref, map[p]) # ""}
         IN  [map |-> [p \in (DOMAIN map) \ gone |-> map[p]],
              lines |-> {<<PruneTag(rm, ignore, ref, map[p]), p>> : p \in gone}]
    ELSE [map |-> map, lines |-> {}]

\* lines 375-380: the bytes the six fwrite calls of one record add to the
\* stream when the calls of failed (a set of 1..6) write nothing; the value
\* fwrite returns is a size_t, so "< 0" is never true and no failure is seen
WriteItems(path, r, failed) ==
    LET items == RecordItems(path, r)
    IN  Flatten([k \in 1..Len(items) |-> IF k \in failed THEN <<>> ELSE items[k]])

-----------------------------------------------------------------------------
(* sha1.c: the streaming wrapper around sha1_compress.  sha1_compress is   *)
(* external; the five accumulator words are modelled by the sequence of    *)
(* blocks compressed into them since sha1_start, so that two computations  *)
(* have equal accumulators exactly when they compressed the same blocks.   *)

BlockSize == 64
LengthOffset == 56
PadByte == 128
Uninit == 0 - 1                     \* a byte of block never written

Min(a, b) == IF a < b THEN a ELSE b

\* memcpy(dst + at, src, Len(src)) and memset(dst + at, c, n), at 0-based
memcpy(dst, at, src) ==
    [i \in 1..Len(dst) |-> IF i > at /\ i <= at + Len(src) THEN src[i - at] ELSE dst[i]]
memset(dst, at, c, n) ==
    [i \in 1..Len(dst) |-> IF i > at /\ i <= at + n THEN c ELSE dst[i]]

sha1_compress(hash, block) == Append(hash, block)

sha1_start(s) == [s EXCEPT !.index = 0, !.hash = <<>>, !.total = 0]

\* lines 37-40: a pending block that became full is compressed
ProcessFull_NoCompress(s) ==
    IF s.index = BlockSize THEN [s EXCEPT !.index = 0] ELSE s
ProcessFull(s) ==
    IF s.index = BlockSize
    THEN [s EXCEPT !.hash = sha1_compress(s.hash, s.block), !.index = 0]
    ELSE s

\* lines 30-41: fill the pending block first; [s, p] with p the bytes left
ProcessPending_NoTotal(s, p) ==
    IF s.index # 0
    THEN LET blkrem == Min(BlockSize - s.index, Len(p))
             s1 == [s EXCEPT !.block = memcpy(s.block, s.index, SubSeq(p, 1, blkrem)),
                             !.index = s.index + blkrem]
         IN  [s |-> ProcessFull(s1), p |-> SubSeq(p, blkrem + 1, Len(p))]
    ELSE [s |-> s, p |-> p]
ProcessPending(s, p) ==
    IF s.index # 0
    THEN LET blkrem == Min(BlockSize - s.index, Len(p))
             s1 == [s EXCEPT !.block = memcpy(s.block, s.index, SubSeq(p, 1, blkrem)),
                             !.index = s.index + blkrem,
                             !.total = s.total + blkrem]
         IN  [s |-> ProcessFull(s1), p |-> SubSeq(p, blkrem + 1, Len(p))]
    ELSE [s |-> s, p |-> p]

\* lines 46-48: for (i = 0; len - i >= 64; i += 64) sha1_compress(s->hash, p + i)
RECURSIVE ProcessBlocks(_, _, _)
ProcessBlocks(hash, p, i) ==
    IF Len(p) - i >= BlockSize
    THEN ProcessBlocks(sha1_compress(hash, SubSeq(p, i + 1, i + BlockSize)), p, i + BlockSize)
    ELSE [hash |-> hash, i |-> i]

sha1_process(s, data) ==
    LET a == ProcessPending(s, data)
        p == a.p
        len == Len(p)
    IN  IF len = 0 THEN a.s
        ELSE LET b == ProcessBlocks(a.s.hash, p, 0)
                 rem == len - b.i
             IN  [index |-> IF rem > 0 THEN rem ELSE a.s.index,
                  hash  |-> b.hash,
                  total |-> a.s.total + len,
                  block |-> IF rem > 0
                            THEN memcpy(a.s.block, 0, SubSeq(p, b.i + 1, len))
                            ELSE a.s.block]

RECURSIVE ShiftRight8(_, _)
ShiftRight8(n, i) == IF i = 0 THEN n ELSE ShiftRight8(n \div 256, i - 1)

\* lines 71-73: the 64-bit big-endian bit length in the last 8 bytes
StoreLength(block, len) ==
    [k \in 1..Len(block) |->
        IF k > BlockSize - 8 /\ k <= BlockSize
        THEN ShiftRight8(len, BlockSize - k) % 256
        ELSE block[k]]

sha1_finish_OffByOne(s) ==
    LET b1 == [s.block EXCEPT ![s.index + 1] = PadByte]
        index == s.index + 1
        s2 == IF BlockSize - index >= 9
              THEN [s EXCEPT !.index = index,
                             !.block = memset(b1, index, 0, LengthOffset - index)]
              ELSE LET full == memset(b1, index, 0, BlockSize - index)
                   IN  [s EXCEPT !.index = index,
                                 !.hash = sha1_compress(s.hash, full),
                                 !.block = memset(full, 0, 0, LengthOffset)]
        last == StoreLength(s2.block, s2.total * 8)
    IN  [s2 EXCEPT !.block = last, !.hash = sha1_compress(s2.hash, last)]
sha1_finish(s) ==
    LET b1 == [s.block EXCEPT ![s.index + 1] = PadByte]
        index == s.index + 1
        s2 == IF BlockSize - index >= 8
              THEN [s EXCEPT !.index = index,
                             !.block = memset(b1, index, 0, LengthOffset - index)]
              ELSE LET full == memset(b1, index, 0, BlockSize - index)
                   IN  [s EXCEPT !.index = index,
                                 !.hash = sha1_compress(s.hash, full),
                                 !.block = memset(full, 0, 0, LengthOffset)]
        last == StoreLength(s2.block, s2.total * 8)
    IN  [s2 EXCEPT !.block = last, !.hash = sha1_compress(s2.hash, last)]

\* the offsets (0-based) of s->block that sha1_finish stores to: the pad byte,
\* the memset of either branch, the memset of the fresh block, the length
FinishWrites(s) ==
    LET index == s.index + 1
    IN  {s.index}
        \cup (IF BlockSize - index >= 8
              THEN {o \in index..(LengthOffset - 1) : TRUE}
              ELSE {o \in index..(BlockSize - 1) : TRUE} \cup (0..(LengthOffset - 1)))
        \cup {BlockSize - 1 - i : i \in 0..7}

(* One digest computation, fed in chunks.  The message is generic: the     *)
(* byte at offset k of the message is MsgByte(k), so that a block that is  *)
(* dropped, repeated or misplaced shows.                                   *)

MaxMsgLen == 130
ChunkLens == 0..MaxMsgLen
MsgByte(k) == 1 + (k % 250)
Msg(from, n) == [i \in 1..n |-> MsgByte(from + i - 1)]

\* A sha1_state before sha1_start: nothing in it is initialised.
UninitBlock == [i \in 1..BlockSize |-> Uninit]
JunkStates ==
    {[index |-> i, hash |-> h, total |-> i, block |-> UninitBlock] :
        i \in {0, 9, 200}, h \in {<<>>, <<UninitBlock>>}}
IdleState == [index |-> 0, hash |-> <<>>, total |-> 0, block |-> <<>>]

CodecIdle ==
    /\ cpc = "idle"
    /\ cflag = FALSE
    /\ cm = EmptyMap
    /\ crecs = <<>>
    /\ cbytes = <<>>
    /\ cres = LoadFail("none")

NoRun == [now |-> Timespec(0, 0), out |-> {}, sha1s |-> EmptyMap]

ToolIdle ==
    /\ pc = "idle"
    /\ run = 0
    /\ faulty = FALSE
    /\ clock = Timespec(0, 0)
    /\ tree = EmptyMap
    /\ canon = Absent
    /\ tmpf = Absent
    /\ remove_missing = FALSE
    /\ ignore_seconds = 0
    /\ filename = DefaultName
    /\ now = Timespec(0, 0)
    /\ sha1s = EmptyMap
    /\ todo = {}
    /\ updated = FALSE
    /\ need_to_write = FALSE
    /\ towrite = {}
    /\ pre = Absent
    /\ loaded = EmptyMap
    /\ visited = EmptyMap
    /\ hashed = {}
    /\ vanished = {}
    /\ out = {}
    /\ renamed = FALSE
    /\ prev = NoRun

NoDamage == [file |-> "none", kind |-> "none"]
DiffIdle ==
    /\ dpc = "idle"
    /\ dlocal = <<>>
    /\ dremote = <<>>
    /\ dterm = NUL
    /\ dmap = EmptyMap
    /\ dout = <<>>
    /\ ddamage = NoDamage

HashIdle ==
    /\ hpc = "idle"
    /\ hs = IdleState
    /\ hfed = 0
    /\ hempty = FALSE
    /\ hcross = FALSE

HashInit ==
    /\ hpc = "new"
    /\ hs \in JunkStates
    /\ hfed = 0
    /\ hempty = FALSE
    /\ hcross = FALSE
    /\ CodecIdle
    /\ DiffIdle
    /\ ToolIdle

HashStart ==
    /\ hpc = "new"
    /\ hs' = sha1_start(hs)
    /\ hpc' = "started"
    /\ UNCHANGED <<hfed, hempty, hcross>>
    /\ UNCHANGED <<codecVars, diffVars, toolVars>>

HashProcess ==
    /\ hpc = "started"
    /\ \E len \in ChunkLens :
          /\ hfed + len <= MaxMsgLen
          /\ hs' = sha1_process(hs, Msg(hfed, len))
          /\ hfed' = hfed + len
          /\ hempty' = (hempty \/ len = 0)
          /\ hcross' = (hcross \/ ((hfed % BlockSize) # 0 /\ (hfed % BlockSize) + len > BlockSize))
    /\ UNCHANGED hpc
    /\ UNCHANGED <<codecVars, diffVars, toolVars>>

HashFinish ==
    /\ hpc = "started"
    /\ hs' = sha1_finish(hs)
    /\ hpc' = "finished"
    /\ UNCHANGED <<hfed, hempty, hcross>>
    /\ UNCHANGED <<codecVars, diffVars, toolVars>>

HashNext == HashStart \/ HashProcess \/ HashFinish

SpecHash == HashInit /\ [][HashNext]_vars

\* sha1_start, one sha1_process of the whole message, sha1_finish
OneShot(n) ==
    sha1_finish(sha1_process(sha1_start([IdleState EXCEPT !.block = UninitBlock]), Msg(0, n)))

(* C9: streaming equivalence.  Whatever the split of a message into chunks, *)
(* sha1_start, one sha1_process per chunk and sha1_finish compress the same *)
(* sequence of 64-byte blocks, and so give the same digest, as one         *)
(* sha1_process of the whole message.                                      *)
C9_StreamingEquivalence ==
    hpc = "finished" => hs.hash = OneShot(hfed).hash

C9_Witness ==
    /\ hpc = "finished"
    /\ hempty
    /\ hcross
    /\ hfed > BlockSize
    /\ Len(hs.hash) >= 2

-----------------------------------------------------------------------------
(* The codec on its own: a manifest as main holds it when the persist loop *)
(* runs is written, the file is read back whole or cut short, and          *)
(* load_sha1s decodes it.                                                  *)

CodecTimes == {Timespec(0, 0), Timespec(Day + 2, HalfSecond)}
CodecRecords ==
    {CFileHash(calculate_sha1(c), t, b) : c \in Contents, t \in CodecTimes, b \in BOOLEAN}
CodecManifests ==
    UNION {[D -> CodecRecords] : D \in SUBSET Paths}
JunkBytes == {NUL, NL, 255}

CodecInit ==
    /\ cpc = "mem"
    /\ cflag \in BOOLEAN
    /\ cm \in CodecManifests
    \* after the prune phase of a run with -c every record left is touched
    /\ cflag => \A p \in DOMAIN cm : cm[p].touched
    /\ crecs = <<>>
    /\ cbytes = <<>>
    /\ cres = LoadFail("none")
    /\ HashIdle
    /\ DiffIdle
    /\ ToolIdle

CodecPersist ==
    /\ cpc = "mem"
    /\ \E order \in Orders(DOMAIN cm) :
          /\ crecs' = PersistRecords(order, cm, cflag)
          /\ cbytes' = Flatten(crecs')
    /\ cpc' = "file"
    /\ UNCHANGED <<cm, cflag, cres>>
    /\ UNCHANGED <<hashVars, diffVars, toolVars>>

CodecTruncate ==
    /\ cpc = "file"
    /\ \E k \in 0..(Len(cbytes) - 1) : cbytes' = SubSeq(cbytes, 1, k)
    /\ cpc' = "cut"
    /\ UNCHANGED <<cm, cflag, crecs, cres>>
    /\ UNCHANGED <<hashVars, diffVars, toolVars>>

CodecLoad ==
    /\ cpc \in {"file", "cut"}
    /\ \E junk \in JunkBytes : cres' = load_sha1s(cbytes, junk)
    /\ cpc' = IF cpc = "file" THEN "decoded" ELSE "decodedcut"
    /\ UNCHANGED <<cm, cflag, crecs, cbytes>>
    /\ UNCHANGED <<hashVars, diffVars, toolVars>>

CodecNext == CodecPersist \/ CodecTruncate \/ CodecLoad

SpecCodec == CodecInit /\ [][CodecNext]_vars


(* C8: codec round trip.  Decoding with load_sha1s the bytes the persist    *)
(* loop wrote for a manifest gives the same paths and, for each path, the  *)
(* same hash and the same (seconds, nanoseconds); every decoded record is  *)
(* untouched.                                                              *)
C8_RoundTrip ==
    cpc = "decoded" =>
        /\ cres.err = "none"
        /\ DOMAIN cres.map = DOMAIN cm
        /\ \A p \in DOMAIN cm :
              cres.map[p] = CFileHash(cm[p].hash, cm[p].st_mtim, FALSE)

C8_Witness ==
    /\ cpc = "decoded"
    /\ DOMAIN cm = Paths
    /\ \E p \in DOMAIN cm : cm[p].touched /\ cm[p].st_mtim.tv_nsec # 0
    /\ \E p, q \in DOMAIN cm : cm[p].st_mtim # cm[q].st_mtim /\ cm[p].hash # cm[q].hash

(* C10: truncation is fatal.  load_sha1s on a proper prefix of a manifest   *)
(* file that ends inside a record aborts with a format error.              *)
C10_TruncationFatal ==
    (cpc = "decodedcut" /\ Len(cbytes) \notin Boundaries(crecs)) => cres.err # "none"

-----------------------------------------------------------------------------
(* One run of compare_sha1s on two well-formed manifest files: each a      *)
(* sequence of records with distinct paths, as update_sha1s writes them,   *)
(* each record ending in NUL and newline (or two NULs, the older format).  *)

DiffRecords ==
    {[path |-> p, st_mtim |-> Timespec(Day + 2, HalfSecond), hash |-> calculate_sha1(c)] :
        p \in Paths, c \in Contents}
DiffFiles ==
    {f \in UNION {[1..n -> DiffRecords] : n \in 0..Cardinality(Paths)} :
        \A i, j \in DOMAIN f : i # j => f[i].path # f[j].path}

RECURSIVE ManifestBytes(_, _)
ManifestBytes(recs, term) ==
    IF recs = <<>> THEN <<>>
    ELSE LET r == Head(recs)
         IN  r.path \o <<NUL>> \o FormatModified(r.st_mtim) \o <<NUL>> \o r.hash
                 \o <<NUL, term>> \o ManifestBytes(Tail(recs), term)

Range(f) == {f[x] : x \in DOMAIN f}

\* Damage to a manifest file: the '.' of the first timestamp lost, a letter
\* after the first timestamp, the first delimiter lost, the last byte or the
\* last three bytes cut off.
FirstAt(bytes, b, from) ==
    IF \E i \in from..Len(bytes) : bytes[i] = b
    THEN CHOOSE i \in from..Len(bytes) :
            bytes[i] = b /\ \A j \in from..(i - 1) : bytes[j] # b
    ELSE 0
Without(bytes, i) ==
    IF i = 0 THEN bytes ELSE SubSeq(bytes, 1, i - 1) \o SubSeq(bytes, i + 1, Len(bytes))
DamageKinds == {"nodot", "trailing", "nodelim", "cut1", "cut3"}
Damages == {[file |-> f, kind |-> k] : f \in {"local", "remote"}, k \in DamageKinds}
Damaged(bytes, kind) ==
    LET nul1 == FirstAt(bytes, NUL, 1)
        nul2 == FirstAt(bytes, NUL, nul1 + 1)
    IN  CASE kind = "nodot" -> Without(bytes, FirstAt(bytes, DOT, nul1 + 1))
          [] kind = "trailing" ->
                IF nul2 = 0 THEN bytes
                ELSE SubSeq(bytes, 1, nul2 - 1) \o <<120>> \o SubSeq(bytes, nul2, Len(bytes))
          [] kind = "nodelim" -> Without(bytes, nul1)
          [] kind = "cut1" -> SubSeq(bytes, 1, Len(bytes) - 1)
          [] kind = "cut3" -> SubSeq(bytes, 1, Len(bytes) - 3)
          [] OTHER -> bytes
LocalBytes ==
    LET bytes == ManifestBytes(dlocal, dterm)
    IN  IF ddamage.file = "local" THEN Damaged(bytes, ddamage.kind) ELSE bytes
RemoteBytes ==
    LET bytes == ManifestBytes(dremote, dterm)
    IN  IF ddamage.file = "remote" THEN Damaged(bytes, ddamage.kind) ELSE bytes

DiffInit ==
    /\ dpc = "start"
    /\ dlocal \in DiffFiles
    /\ dremote \in DiffFiles
    /\ dterm \in {NUL, NL}
    /\ dmap = EmptyMap
    /\ dout = <<>>
    /\ ddamage = NoDamage
    /\ CodecIdle
    /\ HashIdle
    /\ ToolIdle

\* main, line 153: CFileHashMap local_sha1s(load_sha1s(local))
DiffLoad ==
    /\ dpc = "start"
    /\ \E junk \in JunkBytes :
          LET r == cmp_load_sha1s(LocalBytes, junk)
          IN  /\ dmap' = r.map
              /\ dpc' = IF r.err = "none" THEN "loaded" ELSE "failed"
    /\ UNCHANGED <<dlocal, dremote, dterm, dout, ddamage>>
    /\ UNCHANGED <<codecVars, hashVars, toolVars>>

\* main, line 154: compare_sha1s(local_sha1s, remote)
DiffCompare ==
    /\ dpc = "loaded"
    /\ \E junk \in JunkBytes :
          LET r == compare_sha1s(dmap, RemoteBytes, junk)
          IN  /\ dout' = r.out
              /\ dpc' = IF r.err = "none" THEN "done" ELSE "failed"
    /\ UNCHANGED <<dlocal, dremote, dterm, dmap, ddamage>>
    /\ UNCHANGED <<codecVars, hashVars, toolVars>>

DiffNext == DiffLoad \/ DiffCompare

SpecDiff == DiffInit /\ [][DiffNext]_vars

(* C7: the paths the diff tool prints are exactly the paths of the records  *)
(* of the candidate file whose hash is the hash of no record of the        *)
(* reference file.  The right-hand side reads the files' records as sets,   *)
(* so the printed set is the same for every order of the records of either *)
(* file, and it is empty when every candidate hash occurs in the reference.*)
C7_DiffResult ==
    dpc \in {"loaded", "done", "failed"} =>
        /\ dpc # "failed"
        /\ dpc = "done" =>
              Range(dout) =
                  {b.path : b \in {r \in Range(dremote) :
                                      r.hash \notin {a.hash : a \in Range(dlocal)}}}

C7_Witness ==
    /\ dpc = "done"
    /\ Len(dlocal) = 2 /\ dlocal[1].hash = dlocal[2].hash
    /\ Len(dremote) = 2
    /\ Len(dout) = 1

\* One run of compare_sha1s on two files of which one may be damaged
DiffRawInit ==
    /\ dpc = "start"
    /\ dlocal \in DiffFiles
    /\ dremote \in DiffFiles
    /\ dterm \in {NUL, NL}
    /\ dmap = EmptyMap
    /\ dout = <<>>
    /\ ddamage \in {NoDamage} \cup Damages
    /\ CodecIdle
    /\ HashIdle
    /\ ToolIdle

SpecDiffRaw == DiffRawInit /\ [][DiffNext]_vars

\* load_sha1s of update_sha1s.C exits with an error on the bytes, whatever it
\* reads beyond the buffer
FormatError(bytes) == \A junk \in JunkBytes : load_sha1s(bytes, junk).err # "none"

(* C11: the diff tool rejects malformed manifests.  When either input file *)
(* is one that load_sha1s of the primary tool exits on with a format error, *)
(* the diff tool does not run to its end and prints no path.               *)
C11_DiffRejectsMalformed ==
    (FormatError(LocalBytes) \/ FormatError(RemoteBytes)) =>
        (dpc # "done" /\ dout = <<>>)

-----------------------------------------------------------------------------
(* Runs of update_sha1s in one directory that holds regular files and the  *)
(* manifest.  The tree does not change; the clock only moves forward.      *)
(* Spec is one run, in which at most one library call of the persist phase *)
(* fails.  SpecTwice is a run followed by a second one, every call         *)
(* succeeding.                                                             *)

MaxScanSecs == 1                    \* the scan takes at most this long
MaxGap == 4                         \* the longest time between two runs
ClockStart == 86410                 \* the time of the first run

NameOrder == <<<<97>>, <<98>>>>      \* the d_names "a" and "b"
ContentOf(n) == CHOOSE i \in DOMAIN NameOrder : NameOrder[i] = n
OldContent == 0

\* modification times: long expired, 4 s old, 3 s old by tv_sec but 2.5 s old,
\* and 2 s old
FileTimes ==
    {Timespec(ClockStart - Day - 1, 0), Timespec(ClockStart - 4, 0),
     Timespec(ClockStart - 3, HalfSecond), Timespec(ClockStart - 2, 0)}
\* the second name is a file that has long settled, or no file: modified a
\* day and a second ago, or a day ago to the second
SettledTimes == {Timespec(ClockStart - Day - 1, 0), Timespec(ClockStart - Day, 0)}
TimesOf(n) == IF n = NameOrder[1] THEN FileTimes ELSE SettledTimes
NoRecord == Timespec(0 - 1, 0)
Shapes ==
    {sh \in [DirNames -> FileTimes \cup SettledTimes \cup {NoRecord}] :
        \A n \in DirNames : sh[n] \in TimesOf(n) \cup {NoRecord}}

\* The manifest a run finds: for some of the names a record with one of the
\* name's times; its hash is the file's when the times agree, an older one if not.
InitialRecord(n, t, tr) ==
    CFileHash(calculate_sha1(IF tr[n].d_type = "REG" /\ tr[n].st_mtim = t
                             THEN ContentOf(n) ELSE OldContent),
              t, FALSE)
InitialManifest(times, tr) ==
    LET names == SelectSeq(NameOrder, LAMBDA n : times[n] # NoRecord)
    IN  [i \in DOMAIN names |->
            [path |-> PathOf(RootDir, names[i]),
             rec |-> InitialRecord(names[i], times[names[i]], tr)]]
InitialBytes(recs) ==
    Flatten([i \in DOMAIN recs |-> Flatten(RecordItems(recs[i].path, recs[i].rec))])

Init ==
    /\ pc = "start"
    /\ run = 1
    /\ faulty = FALSE
    /\ clock \in {Timespec(ClockStart, n) : n \in {0, HalfSecond}}
    /\ \E shape \in Shapes :
          tree = [n \in DirNames |->
                     IF shape[n] # NoRecord
                     THEN RegularFile(shape[n], ContentOf(n)) ELSE NoEntry]
    /\ \E times \in Shapes :
          LET recs == InitialManifest(times, tree)
          IN  canon \in IF recs = <<>> THEN {Absent, FileOf(<<>>)}
                        ELSE {FileOf(InitialBytes(recs))}
    /\ tmpf = Absent
    /\ remove_missing \in BOOLEAN
    /\ ignore_seconds \in {0, 1 * Day}
    /\ filename = DefaultName
    /\ now = Timespec(0, 0)
    /\ sha1s = EmptyMap
    /\ todo = {}
    /\ updated = FALSE
    /\ need_to_write = FALSE
    /\ towrite = {}
    /\ pre = Absent
    /\ loaded = EmptyMap
    /\ visited = EmptyMap
    /\ hashed = {}
    /\ vanished = {}
    /\ out = {}
    /\ renamed = FALSE
    /\ prev = NoRun
    /\ CodecIdle
    /\ HashIdle
    /\ DiffIdle

Others == <<codecVars, hashVars, diffVars>>

\* main, lines 317-322: the reference time is read and the manifest loaded;
\* update_sha1s opens the directory
Start ==
    /\ pc = "start"
    /\ now' = clock
    /\ pre' = canon
    /\ \E junk \in JunkBytes :
          LET r == IF canon.exists THEN load_sha1s(canon.bytes, junk)
                   ELSE [err |-> "none", map |-> EmptyMap]
          IN  /\ sha1s' = r.map
              /\ loaded' = r.map
              /\ pc' = IF r.err = "none" THEN "scan" ELSE "failed"
    /\ todo' = {n \in DOMAIN tree : tree[n].d_type # "NONE"}
    /\ updated' = FALSE
    /\ need_to_write' = FALSE
    /\ UNCHANGED <<run, clock, fsVars, optVars, towrite, faulty,
                   visited, hashed, vanished, out, renamed, prev, Others>>

\* update_sha1s, lines 231-272: readdir returns one more entry
Visit ==
    /\ pc = "scan"
    /\ \E n \in todo, d \in 0..MaxScanSecs :
          LET name == PathOf(RootDir, n)
              nownow == Timespec(clock.tv_sec + d, clock.tv_nsec)
              what == IF IgnoredName(name) THEN "ignore" ELSE Classify(tree[n].d_type)
              \* line 264: the recursive call, for the directory's one file
              file == IF what = "DIR" THEN PathOf(name, ChildName) ELSE name
          IN  /\ nownow.tv_sec <= now.tv_sec + MaxScanSecs
              /\ todo' = todo \ {n}
              /\ pc' = IF what = "abort" THEN "failed" ELSE pc
              /\ IF what \in {"ignore", "abort"}
                 THEN UNCHANGED <<clock, sha1s, updated, visited, hashed, out>>
                 ELSE IF what = "skip"
                 THEN /\ out' = out \cup {<<"skip", name>>}
                      /\ UNCHANGED <<clock, sha1s, updated, visited, hashed>>
                 ELSE LET r == update_sha1(sha1s, file, tree[n], tree[n].content,
                                           ignore_seconds, now, nownow)
                      IN  /\ sha1s' = r.map
                          /\ updated' = (r.ret \/ updated)
                          /\ clock' = nownow
                          /\ visited' = MapSet(visited, file, nownow)
                          /\ hashed' = IF r.hashed THEN hashed \cup {file} ELSE hashed
                          /\ out' = IF r.line = "" THEN out ELSE out \cup {<<r.line, file>>}
    /\ UNCHANGED <<run, fsVars, optVars, now, need_to_write, towrite, faulty,
                   pre, loaded, vanished, renamed, prev, Others>>

\* update_sha1, lines 179-185, for an entry that was unlinked after readdir
\* returned it: open() fails with ENOENT, which line 180 lets pass with
\* fd = -1; fstat(-1, &sb) then fails (EBADF) and line 185 exits
OpenNoEntry == 0 - 1
FstatFails(fd) == fd < 0
VisitVanished ==
    /\ pc = "scan"
    /\ \E n \in todo :
          /\ tree[n].d_type = "REG"
          /\ ~IgnoredName(PathOf(RootDir, n))
          /\ tree' = [tree EXCEPT ![n] = NoEntry]
          /\ vanished' = vanished \cup {PathOf(RootDir, n)}
          /\ todo' = todo \ {n}
    /\ pc' = IF FstatFails(OpenNoEntry) THEN "failed" ELSE "scan"
    /\ UNCHANGED <<run, clock, canon, tmpf, optVars, now, sha1s, updated,
                   need_to_write, towrite, faulty, pre, loaded, visited, hashed,
                   out, renamed, prev, Others>>

\* main, lines 323-367: update_sha1s has returned; the prune phase; then
\* either nothing to write, or the temporary file is created
PruneAndOpen ==
    /\ pc = "scan"
    /\ todo = {}
    /\ LET r == Prune(sha1s, remove_missing, ignore_seconds, now)
           need == updated \/ r.lines # {}
       IN  /\ sha1s' = r.map
           /\ need_to_write' = need
           /\ out' = out \cup r.lines \cup (IF updated THEN {} ELSE {<<"nonew", <<>>>>})
           /\ IF need
              THEN /\ tmpf' = FileOf(<<>>)
                   /\ towrite' = DOMAIN r.map
                   /\ pc' = "write"
              ELSE /\ UNCHANGED <<tmpf, towrite>>
                   /\ pc' = "done"
    /\ UNCHANGED <<run, clock, tree, canon, optVars, now, todo, updated, faulty,
                   pre, loaded, visited, hashed, vanished, renamed, prev, Others>>

\* main, lines 369-382: one round of the persist loop
WriteRecord ==
    /\ pc = "write"
    /\ \E p \in towrite :
          /\ towrite' = towrite \ {p}
          /\ tmpf' = IF PersistSkips(remove_missing, sha1s[p]) THEN tmpf
                     ELSE FileOf(tmpf.bytes \o WriteItems(p, sha1s[p], {}))
    /\ UNCHANGED <<pc, run, clock, tree, canon, optVars, now, sha1s, todo, updated,
                   need_to_write, faulty, histVars, Others>>

\* the same round when one of its fwrite calls fails and returns 0
WriteRecordFails ==
    /\ pc = "write"
    /\ ~faulty
    /\ \E p \in towrite, k \in 1..6 :
          /\ ~PersistSkips(remove_missing, sha1s[p])
          /\ towrite' = towrite \ {p}
          /\ tmpf' = FileOf(tmpf.bytes \o WriteItems(p, sha1s[p], {k}))
    /\ faulty' = TRUE
    /\ UNCHANGED <<pc, run, clock, tree, canon, optVars, now, sha1s, todo, updated,
                   need_to_write, histVars, Others>>

\* main, lines 384-385: fclose
Close ==
    /\ pc = "write"
    /\ towrite = {}
    /\ pc' = "rename"
    /\ UNCHANGED <<run, clock, fsVars, optVars, now, sha1s, todo, updated,
                   need_to_write, towrite, faulty, histVars, Others>>

\* main, lines 387-390: rename
Rename ==
    /\ pc = "rename"
    /\ canon' = tmpf
    /\ tmpf' = Absent
    /\ renamed' = TRUE
    /\ pc' = "done"
    /\ UNCHANGED <<run, clock, tree, optVars, now, sha1s, todo, updated,
                   need_to_write, towrite, faulty, pre, loaded, visited, hashed,
                   vanished, out, prev, Others>>

\* fopen, fclose or rename fails: error(EXIT_FAILURE, ...)
CallFails ==
    /\ \/ pc = "write" /\ towrite = {}
       \/ pc = "rename"
    /\ ~faulty
    /\ faulty' = TRUE
    /\ pc' = "failed"
    /\ UNCHANGED <<run, clock, fsVars, optVars, now, sha1s, todo, updated,
                   need_to_write, towrite, histVars, Others>>

\* the tool is started again, some time after a run that exited with success
NextRun ==
    /\ pc = "done"
    /\ run = 1
    /\ run' = 2
    /\ \E gap \in {MaxGap - 1, MaxGap} :
          clock' = Timespec(clock.tv_sec + gap, clock.tv_nsec)
    /\ prev' = [now |-> now, out |-> out, sha1s |-> sha1s]
    /\ pc' = "start"
    /\ sha1s' = EmptyMap
    /\ loaded' = EmptyMap
    /\ visited' = EmptyMap
    /\ hashed' = {}
    /\ vanished' = {}
    /\ out' = {}
    /\ renamed' = FALSE
    /\ UNCHANGED <<fsVars, optVars, now, todo, updated, need_to_write, towrite,
                   faulty, pre, Others>>

Next ==
    \/ Start
    \/ Visit
    \/ VisitVanished
    \/ PruneAndOpen
    \/ WriteRecord
    \/ WriteRecordFails
    \/ Close
    \/ Rename
    \/ CallFails

Spec == Init /\ [][Next]_vars

NextTwice ==
    \/ Start
    \/ Visit
    \/ PruneAndOpen
    \/ WriteRecord
    \/ Close
    \/ Rename
    \/ NextRun

SpecTwice == Init /\ [][NextTwice]_vars

-----------------------------------------------------------------------------
(* One run in a directory that holds up to MaxEntries settled regular      *)
(* files, among them files named like the manifest and its temporary file; *)
(* the manifest name is the default or the one given with -f.  There is no *)
(* manifest to load.                                                       *)

MaxEntries == 2
OtherName == <<109>>                 \* "m", as in -f m
ManifestNames == {DefaultName, OtherName}
NamePool ==
    ManifestNames \cup {TmpName(f) : f \in ManifestNames}
        \cup {DefaultName \o <<120>>, <<97>>}     \* ".sha1sx" and "a"

NamesInit ==
    /\ pc = "start"
    /\ run = 1
    /\ faulty = FALSE
    /\ clock = Timespec(ClockStart, 0)
    /\ \E present \in SUBSET NamePool :
          /\ Cardinality(present) \in 1..MaxEntries
          /\ tree = [n \in NamePool |->
                       IF n \in present
                       THEN RegularFile(Timespec(ClockStart - 4, 0), 1) ELSE NoEntry]
    /\ canon = Absent
    /\ tmpf = Absent
    /\ remove_missing \in BOOLEAN
    /\ ignore_seconds = 0
    /\ filename \in ManifestNames
    /\ now = Timespec(0, 0)
    /\ sha1s = EmptyMap
    /\ todo = {}
    /\ updated = FALSE
    /\ need_to_write = FALSE
    /\ towrite = {}
    /\ pre = Absent
    /\ loaded = EmptyMap
    /\ visited = EmptyMap
    /\ hashed = {}
    /\ vanished = {}
    /\ out = {}
    /\ renamed = FALSE
    /\ prev = NoRun
    /\ CodecIdle
    /\ HashIdle
    /\ DiffIdle

NextNames ==
    \/ Start
    \/ Visit
    \/ PruneAndOpen
    \/ WriteRecord
    \/ Close
    \/ Rename

SpecNames == NamesInit /\ [][NextNames]_vars

-----------------------------------------------------------------------------
(* One run in a directory whose entries are settled regular files, FIFOs,  *)
(* directories and symbolic links of every kind.  There is no manifest to  *)
(* load and no option.                                                     *)

EntryTypes ==
    {"NONE", "REG", "FIFO", "DIR", "LNK_REG", "LNK_DIR", "LNK_OTHER", "LNK_DANGLING"}

LinksInit ==
    /\ pc = "start"
    /\ run = 1
    /\ faulty = FALSE
    /\ clock = Timespec(ClockStart, 0)
    /\ \E types \in [DirNames -> EntryTypes] :
          tree = [n \in DirNames |->
                     IF types[n] = "NONE" THEN NoEntry
                     ELSE [d_type |-> types[n],
                           st_mtim |-> Timespec(ClockStart - 4, 0),
                           content |-> ContentOf(n)]]
    /\ canon = Absent
    /\ tmpf = Absent
    /\ remove_missing \in BOOLEAN
    /\ ignore_seconds = 0
    /\ filename = DefaultName
    /\ now = Timespec(0, 0)
    /\ sha1s = EmptyMap
    /\ todo = {}
    /\ updated = FALSE
    /\ need_to_write = FALSE
    /\ towrite = {}
    /\ pre = Absent
    /\ loaded = EmptyMap
    /\ visited = EmptyMap
    /\ hashed = {}
    /\ vanished = {}
    /\ out = {}
    /\ renamed = FALSE
    /\ prev = NoRun
    /\ CodecIdle
    /\ HashIdle
    /\ DiffIdle

SpecLinks == LinksInit /\ [][NextNames]_vars

-----------------------------------------------------------------------------
(* Properties of the runs *)

Lines(printed, tags) == {l \in printed : l[1] \in tags}

\* the files the persist loop can produce for a manifest: every record in
\* full, in some order
Encodings(map) ==
    {Flatten([i \in DOMAIN o |-> Flatten(RecordItems(o[i], map[o[i]]))]) :
        o \in Orders(DOMAIN map)}

\* the bytes hold the path field of a record for path
HasRecordFor(bytes, path) ==
    LET field == path \o <<NUL>>
    IN  \E i \in 1..(Len(bytes) - Len(field) + 1) :
            SubSeq(bytes, i, i + Len(field) - 1) = field

\* at is less than secs seconds after st_mtim, on the full timestamps
AgeBelow(at, st_mtim, secs) ==
    \/ at.tv_sec - st_mtim.tv_sec < secs
    \/ at.tv_sec - st_mtim.tv_sec = secs /\ at.tv_nsec < st_mtim.tv_nsec

SameRecords(a, b) ==
    /\ DOMAIN a = DOMAIN b
    /\ \A p \in DOMAIN a : a[p].hash = b[p].hash /\ a[p].st_mtim = b[p].st_mtim

(* C1: atomic publish.  In every state of a run, also one in which the run  *)
(* was aborted before rename() returned, the canonical manifest file is     *)
(* byte for byte what the run found, or it is the complete encoding of the  *)
(* in-memory manifest; it is never a partial encoding.                      *)
C1_AtomicPublish ==
    pc # "start" =>
        \/ canon = pre
        \/ canon.exists /\ canon.bytes \in Encodings(sha1s)

(* C2: persist only on change.  The scan returns true only if a record was  *)
(* added or replaced, and a run that adds, replaces and deletes no record   *)
(* writes no temporary file and renames nothing: the canonical file is as   *)
(* the run found it.                                                        *)
C2_PersistOnlyOnChange ==
    /\ updated => Lines(out, {"add", "mod"}) # {}
    /\ (pc \in {"write", "rename", "done"}
            /\ Lines(out, {"add", "mod", "rem", "exp"}) = {}) =>
          (tmpf = Absent /\ ~renamed /\ canon = pre)

C4_FreshnessGuard ==
    \A n \in DirNames :
        LET p == PathOf(RootDir, n)
        IN  (p \in DOMAIN visited
                /\ AgeBelow(visited[p], tree[n].st_mtim, FreshSeconds)) =>
               /\ p \notin hashed
               /\ p \in DOMAIN sha1s =>
                     /\ p \in DOMAIN loaded
                     /\ sha1s[p].hash = loaded[p].hash
                     /\ sha1s[p].st_mtim = loaded[p].st_mtim

(* C5: remove-missing.  With -c, a path that has a record in the loaded     *)
(* manifest and no regular file in the tree has no record in the in-memory  *)
(* manifest after the prune phase; the run persists, and neither the        *)
(* temporary file nor the manifest file it publishes holds a record for the *)
(* path.                                                                    *)
C5_RemoveMissing ==
    \A n \in DirNames :
        LET p == PathOf(RootDir, n)
        IN  (remove_missing /\ pc \in {"write", "rename", "done"}
                /\ p \in DOMAIN loaded /\ tree[n].d_type # "REG") =>
               /\ p \notin DOMAIN sha1s
               /\ need_to_write
               /\ ~HasRecordFor(tmpf.bytes, p)
               /\ pc = "done" =>
                     (renamed /\ canon.exists /\ ~HasRecordFor(canon.bytes, p))

C5_Witness ==
    /\ pc = "done" /\ remove_missing /\ renamed
    /\ \E n \in DirNames :
          /\ tree[n].d_type # "REG"
          /\ PathOf(RootDir, n) \in DOMAIN loaded
          /\ <<"rem", PathOf(RootDir, n)>> \in out
    /\ sha1s # EmptyMap
    /\ canon.bytes \in Encodings(sha1s)

C12_VanishedTolerated ==
    \A p \in vanished :
        /\ pc # "failed"
        /\ p \in DOMAIN sha1s =>
              (p \in DOMAIN loaded /\ sha1s[p] = loaded[p])

(* C13: manifest self-exclusion.  Whatever the manifest filename is, the   *)
(* scan neither hashes nor records the entry of that name or the entry of  *)
(* its temporary file, and it passes every other regular file to           *)
(* update_sha1.                                                            *)
C13_SelfExclusion ==
    \A n \in DOMAIN tree :
        LET p == PathOf(RootDir, n)
        IN  IF n \in {filename, TmpName(filename)}
            THEN p \notin hashed /\ p \notin DOMAIN sha1s
            ELSE (tree[n].d_type = "REG" /\ pc \in {"write", "rename", "done"}) =>
                    p \in DOMAIN visited

(* C14: symlink classification.  A link to a directory is recursed into, a *)
(* link to a regular file is reconciled as a regular file, and a link to   *)
(* anything else, a dangling link included, is skipped with a diagnostic   *)
(* and not recorded, the scan going on without aborting.                   *)
C14_SymlinkClassification ==
    \A n \in DOMAIN tree :
        LET name == PathOf(RootDir, n)
            over == pc \in {"write", "rename", "done"}
        IN  /\ (tree[n].d_type = "LNK_DIR" /\ over) =>
                   PathOf(name, ChildName) \in DOMAIN visited
            /\ (tree[n].d_type = "LNK_REG" /\ over) => name \in DOMAIN visited
            /\ (tree[n].d_type \in {"LNK_OTHER", "LNK_DANGLING"}
                    /\ pc # "start" /\ n \notin todo) =>
                   /\ pc # "failed"
                   /\ <<"skip", name>> \in out
                   /\ name \notin DOMAIN sha1s

\* the file named n was visited and the loaded manifest holds a record for it
\* with the file's modification time
VisitedMatching(n) ==
    LET p == PathOf(RootDir, n)
    IN  /\ tree[n].d_type = "REG"
        /\ p \in DOMAIN visited
        /\ p \in DOMAIN loaded
        /\ loaded[p].st_mtim = tree[n].st_mtim

\* the record of the file named n is marked touched and otherwise as loaded
\* (as long as the scan lasts), and the file was not hashed
TouchedOnly(n) ==
    LET p == PathOf(RootDir, n)
    IN  /\ p \notin hashed
        /\ pc = "scan" =>
              /\ p \in DOMAIN sha1s
              /\ sha1s[p].touched
              /\ sha1s[p].hash = loaded[p].hash
              /\ sha1s[p].st_mtim = loaded[p].st_mtim

(* C15: reconciliation step 1 comes first.  A visited regular file whose    *)
(* record has the file's modification time gets its record marked touched, *)
(* is not hashed, and the record is otherwise unchanged, whatever the age   *)
(* of the file and with or without an ignore threshold.                    *)
C15_MatchFirst ==
    \A n \in DOMAIN tree : VisitedMatching(n) => TouchedOnly(n)

(* C15, amended: the same for a file that the ignore threshold does not    *)
(* exclude (no threshold, or the file is not older than it by tv_sec).     *)
C15_MatchFirstAmended ==
    \A n \in DOMAIN tree :
        (VisitedMatching(n)
            /\ ~(ignore_seconds # 0
                    /\ now.tv_sec - tree[n].st_mtim.tv_sec > ignore_seconds)) =>
            TouchedOnly(n)

C15_Witness ==
    /\ pc = "scan"
    /\ ignore_seconds # 0
    /\ \E n \in DOMAIN tree :
          /\ VisitedMatching(n)
          /\ visited[PathOf(RootDir, n)].tv_sec - tree[n].st_mtim.tv_sec < FreshSeconds
          /\ sha1s[PathOf(RootDir, n)].touched

(* C16: only missing files are removed by -c.  With -c and no ignore       *)
(* threshold, a record of the loaded manifest whose path is a regular file *)
(* found by the scan is still in the in-memory manifest after the prune    *)
(* phase; the record of a file skipped as too fresh keeps its old hash and *)
(* timestamp, in memory and in the manifest file once the run is done.     *)
C16_OnlyMissingRemoved ==
    \A n \in DOMAIN tree :
        LET p == PathOf(RootDir, n)
        IN  (remove_missing /\ ignore_seconds = 0
                /\ pc \in {"write", "rename", "done"}
                /\ tree[n].d_type = "REG"
                /\ p \in DOMAIN visited /\ p \in DOMAIN loaded) =>
               /\ p \in DOMAIN sha1s
               /\ <<"<3s", p>> \in out =>
                     /\ sha1s[p].hash = loaded[p].hash
                     /\ sha1s[p].st_mtim = loaded[p].st_mtim
                     /\ (pc = "done" /\ renamed) => HasRecordFor(canon.bytes, p)

(* C17: write failures never publish.  Once an fwrite of a record field to *)
(* the temporary file or the fclose of the temporary file has failed, the  *)
(* run does not reach rename(): it never ends with success, nothing is     *)
(* renamed, and the canonical manifest file is as the run found it.        *)
C17_WriteFailuresNeverPublish ==
    (faulty /\ pc \in {"write", "rename", "done", "failed"}) =>
        /\ pc \notin {"rename", "done"}
        /\ ~renamed
        /\ canon = pre

(* C18: the HashState invariant.  After sha1_start and after every        *)
(* sha1_process, of any length, index is at least 0 and less than 64 and   *)
(* equals the number of bytes processed modulo 64, the first index bytes   *)
(* of block are the last index bytes processed, and total is the sum of    *)
(* the lengths passed to sha1_process since sha1_start.                    *)
C18_HashStateInvariant ==
    hpc = "started" =>
        /\ hs.index >= 0
        /\ hs.index < BlockSize
        /\ hs.index = hfed % BlockSize
        /\ SubSeq(hs.block, 1, hs.index) = Msg(hfed - hs.index, hs.index)
        /\ hs.total = hfed

C18_Witness ==
    /\ hpc = "started"
    /\ hempty
    /\ hcross
    /\ hfed > BlockSize
    /\ hs.index > 0
    /\ Len(hs.hash) = hfed \div BlockSize

\* the bytes of v in n bytes, most significant first
RECURSIVE BigEndian(_, _)
BigEndian(v, n) == IF n = 0 THEN <<>> ELSE Append(BigEndian(v \div 256, n - 1), v % 256)

\* the least number of zero bytes that makes L + 1 + zeros + 8 a multiple of 64
PadZeros(L) == CHOOSE z \in 0..(BlockSize - 1) : (L + 1 + z + 8) % BlockSize = 0

\* message || 0x80 || zero bytes || 64-bit big-endian 8 * L
PaddedMessage(L) ==
    Msg(0, L) \o <<PadByte>> \o [i \in 1..PadZeros(L) |-> 0] \o BigEndian(8 * L, 8)

\* the consecutive 64-byte blocks of bytes
BlocksOf(bytes) ==
    [k \in 1..(Len(bytes) \div BlockSize) |->
        SubSeq(bytes, BlockSize * (k - 1) + 1, BlockSize * k)]

(* C19: padding at finish.  For a message of L bytes the blocks compressed *)
(* from sha1_start to the end of sha1_finish are the consecutive 64-byte   *)
(* blocks of message, 0x80, the least number of zero bytes, and 8 * L as   *)
(* 64 bits big-endian; sha1_finish compresses one block when L mod 64 is   *)
(* at most 55 and two when it is at least 56, and every store of           *)
(* sha1_finish lies inside the 64 bytes of block.                          *)
C19_PaddingAtFinish ==
    /\ hpc = "started" => FinishWrites(hs) \subseteq 0..(BlockSize - 1)
    /\ hpc = "finished" =>
          /\ Len(PaddedMessage(hfed)) % BlockSize = 0
          /\ hs.hash = BlocksOf(PaddedMessage(hfed))
          /\ Len(hs.hash) - (hfed \div BlockSize)
                = (IF hfed % BlockSize <= 55 THEN 1 ELSE 2)
          /\ Len(hs.block) = BlockSize

C19_Witness ==
    /\ hpc = "finished"
    /\ hfed > BlockSize
    /\ hfed % BlockSize >= LengthOffset
    /\ Len(hs.hash) = (hfed \div BlockSize) + 2

\* the paths of the regular files that the walk of the tree reaches
RegularPaths == {PathOf(RootDir, n) : n \in {m \in DOMAIN tree : tree[m].d_type = "REG"}}

\* the run is over, it ran with -c, without -i and with the default manifest
\* name, and every regular file was at least 3 seconds old when it started
SettledRun ==
    /\ pc = "done"
    /\ remove_missing
    /\ ignore_seconds = 0
    /\ filename = DefaultName
    /\ \A n \in DOMAIN tree :
          tree[n].d_type = "REG" => ~AgeBelow(now, tree[n].st_mtim, FreshSeconds)

\* the in-memory manifest has a touched record with the file's modification
\* time for every regular file, and no other record
MirrorsTree ==
    /\ DOMAIN sha1s = RegularPaths
    /\ \A n \in DOMAIN tree :
          tree[n].d_type = "REG" =>
              /\ sha1s[PathOf(RootDir, n)].touched
              /\ sha1s[PathOf(RootDir, n)].st_mtim = tree[n].st_mtim

(* C20: the manifest mirrors the tree.  After a completed run with -c, no   *)
(* ignore threshold and the default manifest name, on a tree in which every *)
(* regular file is at least 3 seconds old, the paths of the in-memory       *)
(* manifest are the paths of the regular files, every record is touched and *)
(* carries its file's modification time, and a manifest file that the run   *)
(* wrote holds records for the same paths, whatever manifest was loaded.    *)
C20_ManifestMirrorsTree ==
    SettledRun =>
        /\ MirrorsTree
        /\ renamed =>
              /\ canon.exists
              /\ \A q \in Paths : HasRecordFor(canon.bytes, q) <=> q \in RegularPaths

=============================================================================
